---- MODULE Spec2Model ----
(***************************************************************************)
(* QuickShop payment relay.                                                *)
(*                                                                         *)
(* Two Express servers share one Supabase store:                           *)
(*   - backend/server.js : Orange / MTN mobile-money checkout + webhooks,  *)
(*     working on the tables "payments" and "orders";                      *)
(*   - the Stripe server : POST /webhook inserting into "orders".          *)
(* Every awaited Supabase call is one atomic step of the store; the code   *)
(* that runs between two awaits is folded into the step that precedes it.  *)
(***************************************************************************)
EXTENDS Integers, Sequences, FiniteSets, TLC

\* ---------------------------------------------------------------- bounds
MaxPay == 1          \* payments created by checkout
MaxDeliveries == 2   \* webhook deliveries (handler invocations)
MaxCart == 2         \* line items in a cart

\* ------------------------------------------------------------- constants
\* JS falsy values: a missing string field and a missing reference
NoStr == ""
NoRow == [none |-> TRUE]

\* makeId(): 'pay_' + Date.now() + '_' + random hex; never repeats.  The
\* n-th call returns PayIds[n].
PayIds == <<"pay_1", "pay_2", "pay_3", "pay_4">>
makeId(n) == PayIds[n]

\* a well-formed reference that no checkout ever produced
UnknownRef == "pay_x"

Routes == {"orange", "mtn"}

\* String.prototype.toLowerCase on the status and currency tokens used here
toLowerCase(t) ==
  IF t = "SUCCESS" THEN "success" ELSE IF t = "GHS" THEN "ghs" ELSE t

\* a || b || c on strings ("" and undefined are falsy)
Or3(a, b, c) == IF a # NoStr THEN a ELSE IF b # NoStr THEN b ELSE c

\* const paymentId = body.externalId || body.payment_id || body.reference
PaymentIdOf(body) == Or3(body.externalId, body.payment_id, body.reference)

\* const status = (body.status || body.result || 'pending').toLowerCase()
StatusOf(body) == toLowerCase(Or3(body.status, body.result, "pending"))

\* a JSON value that is truthy and not a string (the number 1): calling
\* toLowerCase on it throws a TypeError
NotAString == "#1"
StatusThrows(body) == Or3(body.status, body.result, "pending") = NotAString

\* a test that also takes failed for paid
IsPaidOrFailed(status) == status \in {"paid", "success", "completed", "failed"}

\* status === 'paid' || status === 'success' || status === 'completed'
IsPaidEquivalent(status) == status \in {"paid", "success", "completed"}

MkBody(e, p, r, s, res) ==
  [externalId |-> e, payment_id |-> p, reference |-> r, status |-> s, result |-> res]

\* GHS_RATE = parseFloat(process.env.GHS_RATE || "15")
GHS_RATE == 15

\* ------------------------------------------------------------- variables
VARIABLES
  payments,     \* table payments: payment_id -> row
  orders,       \* table orders: sequence of rows, in insertion order
  orderSrc,     \* history: for each order row, the payment / intent it was built from
  nextId,       \* number of makeId() calls so far + 1
  hs,           \* webhook handler invocations, one slot per delivery
  webhookSecret,\* STRIPE_WEBHOOK_SECRET is configured
  co,           \* last answer of a checkout or status endpoint
  intents       \* PaymentIntents opened at Stripe by the card checkout

vars == <<payments, orders, orderSrc, nextId, hs, webhookSecret, co, intents>>

H == 1..MaxDeliveries

IdleHandler ==
  [pc |-> "idle", kind |-> "none", req |-> NoRow, paymentId |-> NoStr,
   status |-> NoStr, p |-> NoRow, resp |-> 0,
   prior |-> NoStr, inserted |-> FALSE, rejected |-> FALSE, failed |-> FALSE]

InFlight(h) == hs[h].pc \notin {"idle", "done"}

\* the payment ids handed out so far: a provider learns an id only from the
\* checkout that generated it
KnownRefs == {PayIds[i] : i \in 1..(nextId - 1)}

\* request bodies the mobile-money webhooks are exercised with
MobileBodies ==
  {MkBody(r, NoStr, NoStr, t, NoStr) : r \in KnownRefs, t \in {"paid", "failed", "refunded"}}
  \cup {MkBody(NoStr, r, NoStr, NoStr, "SUCCESS") : r \in KnownRefs}
  \cup {MkBody(NoStr, NoStr, r, NoStr, NoStr) : r \in KnownRefs}
  \cup {MkBody(UnknownRef, NoStr, PayIds[1], "paid", NoStr)}
  \cup {MkBody(NoStr, NoStr, NoStr, "paid", NoStr)}
  \cup {MkBody(NoStr, NoStr, NoStr, NotAString, NoStr)}

\* an HTTP answer: status code, the payment id it carries, and (history)
\* the outcome of the ledger write made for it: "none", "ok" or "failed"
Answer(code, id, ledger) == [code |-> code, paymentId |-> id, ledger |-> ledger]

\* both servers start on empty tables
InitStore ==
  /\ payments = <<>>
  /\ orders = <<>>
  /\ orderSrc = <<>>
  /\ nextId = 1
  /\ hs = [h \in H |-> IdleHandler]
  /\ co = Answer(0, NoStr, "none")
  /\ intents = <<>>

\* backend/server.js does not read STRIPE_WEBHOOK_SECRET
Init == InitStore /\ webhookSecret = FALSE

\* the Stripe server runs with or without STRIPE_WEBHOOK_SECRET
InitStripe == InitStore /\ webhookSecret \in BOOLEAN

\* ------------------------------------------------- checkout (mobile money)
\* a record inserted as already paid
createPaymentRecordPaid(payment_id, provider, amount, phone, name, items, raw) ==
  payments' = [x \in DOMAIN payments \cup {payment_id} |->
     IF x = payment_id
     THEN [provider |-> provider, amount |-> amount, phone |-> phone,
           customer_name |-> name, items |-> items, status |-> "paid",
           provider_data |-> raw]
     ELSE payments[x]]

\* createPaymentRecord: insert into payments, status 'pending'
createPaymentRecord(payment_id, provider, amount, phone, name, items, raw) ==
  payments' = [x \in DOMAIN payments \cup {payment_id} |->
     IF x = payment_id
     THEN [provider |-> provider, amount |-> amount, phone |-> phone,
           customer_name |-> name, items |-> items, status |-> "pending",
           provider_data |-> raw]
     ELSE payments[x]]

\* POST /api/create-payment/orange and /api/create-payment/mtn
CreatePayment(provider, amount, phone, name, items) ==
  /\ IF amount = 0 \/ phone = NoStr
     THEN /\ co' = Answer(400, NoStr, "none")
          /\ UNCHANGED <<payments, nextId>>
     ELSE /\ nextId <= MaxPay
          /\ createPaymentRecord(makeId(nextId), provider, amount, phone, name,
                                 items, [simulated |-> TRUE])
          /\ nextId' = nextId + 1
          /\ co' = Answer(200, makeId(nextId), "ok")
  /\ UNCHANGED <<orders, orderSrc, hs, webhookSecret, intents>>

\* the ledger write of a valid checkout fails: createPaymentRecord throws,
\* the catch block answers 500
CreatePaymentFails(provider, amount, phone, name, items) ==
  /\ amount # 0 /\ phone # NoStr
  /\ co' = Answer(500, NoStr, "failed")
  /\ UNCHANGED <<payments, nextId, orders, orderSrc, hs, webhookSecret, intents>>

\* -------------------------------------- GET /api/payment-status/:paymentId
\* ok: the select succeeded.  The answer carries the row; nothing is written.
PaymentStatus(id, ok) ==
  /\ co' = IF ~ok THEN Answer(500, NoStr, "read")
           ELSE IF id \notin DOMAIN payments THEN Answer(404, NoStr, "read")
           ELSE Answer(200, id, "read")
  /\ UNCHANGED <<payments, nextId, orders, orderSrc, hs, webhookSecret, intents>>

\* --------------------------------- POST /create-payment-intent (Stripe)
\* a line item {price, quantity?}; a missing price or quantity is undefined
MkItem(hasPrice, price, hasQty, quantity) ==
  [hasPrice |-> hasPrice, price |-> price, hasQty |-> hasQty, quantity |-> quantity]

Items ==
  {MkItem(TRUE, p, TRUE, q) : p \in {10, 50}, q \in {1, 2}}
  \cup {MkItem(TRUE, 50, FALSE, 0),      \* no quantity
        MkItem(TRUE, 50, TRUE, 0),       \* quantity 0
        MkItem(TRUE, 50, TRUE, 0 - 1),   \* negative quantity
        MkItem(TRUE, 0, TRUE, 1),        \* price 0
        MkItem(TRUE, 0 - 5, TRUE, 1),    \* negative price
        MkItem(FALSE, 0, TRUE, 1)}       \* no price

Carts == UNION {[1..n -> Items] : n \in 0..MaxCart}

\* const price = ... i.price || 0
PriceOf(i) == IF i.hasPrice /\ i.price # 0 THEN i.price ELSE 0

\* const qty = i.quantity ? Number(i.quantity) : 1
QtyOf(i) == IF i.hasQty /\ i.quantity # 0 THEN i.quantity ELSE 1

\* cart.reduce((s, i) => s + price * qty, 0), over the first n items
RECURSIVE ReduceTotal(_, _)
ReduceTotal(cart, n) ==
  IF n = 0 THEN 0
  ELSE ReduceTotal(cart, n - 1) + PriceOf(cart[n]) * QtyOf(cart[n])

totalUSD(cart) == ReduceTotal(cart, Len(cart))

\* Math.round(amount * GHS_RATE * 100) / Math.round(amount * 100); the
\* amounts here are whole numbers, which Math.round leaves as they are
toSmallestUnit(amount, currency) ==
  IF toLowerCase(currency) = "ghs" THEN amount * GHS_RATE * 100 ELSE amount * 100

IntentIds == <<"pi_1", "pi_2">>

\* the handler: validation, amount, stripe.paymentIntents.create.  accepted
\* is Stripe's verdict on the call; a call that fails is answered with 500.
\* intents holds the PaymentIntent opened for the latest request.
CreatePaymentIntent(cart, currency, accepted) ==
  /\ IF Len(cart) = 0
     THEN /\ co' = Answer(400, NoStr, "none")
          /\ intents' = <<>>
     ELSE LET amount == toSmallestUnit(totalUSD(cart), currency) IN
          IF accepted /\ amount > 0
          THEN /\ intents' = <<[id |-> IntentIds[1], amount |-> amount,
                                currency |-> IF currency = "ghs" THEN "ghs" ELSE "usd",
                                cart |-> cart, requested |-> currency]>>
               /\ co' = Answer(200, IntentIds[1], "none")
          ELSE /\ intents' = <<>>
               /\ co' = Answer(500, NoStr, "none")
  /\ UNCHANGED <<payments, orders, orderSrc, nextId, hs, webhookSecret>>

\* ------------------------------------------------------------ the store
\* orders.insert([row]).  The table rejects a row whose source payment
\* identifier (stripe_payment_intent) is already present; rows that carry
\* none (SQL NULL) never conflict.
UniqueViolation(row) ==
  /\ row.stripe_payment_intent # NoStr
  /\ \E i \in 1..Len(orders) :
        orders[i].stripe_payment_intent = row.stripe_payment_intent

\* an update that also rewrites the amount
UpdatePaymentAndAmount(id, status, body) ==
  IF id \in DOMAIN payments
  THEN [payments EXCEPT ![id].status = status, ![id].provider_data = body,
                        ![id].amount = 0]
  ELSE payments

\* payments.update({status, provider_data}).eq('payment_id', id)
UpdatePayment(id, status, body) ==
  IF id \in DOMAIN payments
  THEN [payments EXCEPT ![id].status = status, ![id].provider_data = body]
  ELSE payments

\* payments.select('*').eq('payment_id', id).limit(1) ... .data?.[0]
\* (the row is kept with the columns the handlers read)
SelectPayment(id) ==
  IF id \in DOMAIN payments
  THEN [phone |-> payments[id].phone, items |-> payments[id].items,
        amount |-> payments[id].amount, customer_name |-> payments[id].customer_name]
  ELSE NoRow

\* ------------------------------------------- webhook handlers: bookkeeping
\* deliveries take the slots in order
CanStart(h) ==
  /\ hs[h].pc = "idle"
  /\ \A g \in H : g < h => hs[g].pc # "idle"

Begin(h, rec) == hs' = [hs EXCEPT ![h] = rec]

\* --------------------------------- POST /webhook/orange, POST /webhook/mtn
\* if(!paymentId)
MissingId(paymentId) == paymentId = NoStr

\* lines up to the first await: read the body (500 when computing the status
\* throws), 400 when there is no id
MobileStart(h, body) ==
  /\ CanStart(h)
  /\ LET paymentId == PaymentIdOf(body)
         status == StatusOf(body)
         base == [IdleHandler EXCEPT !.kind = "mobile", !.req = body,
                                     !.paymentId = paymentId, !.status = status]
     IN IF StatusThrows(body)
        THEN Begin(h, [base EXCEPT !.pc = "done", !.resp = 500, !.req = NoRow])
        ELSE IF MissingId(paymentId)
        THEN Begin(h, [base EXCEPT !.pc = "done", !.resp = 400, !.req = NoRow])
        ELSE Begin(h, [base EXCEPT !.pc = "update"])
  /\ UNCHANGED <<payments, orders, orderSrc, nextId, webhookSecret, co, intents>>

\* await payments.update(...); then the test on status
MobileUpdate(h) ==
  /\ hs[h].pc = "update"
  /\ payments' = UpdatePayment(hs[h].paymentId, hs[h].status, hs[h].req)
  /\ hs' = [hs EXCEPT ![h].pc = IF IsPaidEquivalent(hs[h].status)
                                 THEN "select" ELSE "respond",
                      ![h].prior = IF hs[h].paymentId \in DOMAIN payments
                                   THEN payments[hs[h].paymentId].status
                                   ELSE NoStr]
  /\ UNCHANGED <<orders, orderSrc, nextId, webhookSecret, co, intents>>

\* const p = (await payments.select(...)).data?.[0]; if(p) ...
MobileSelect(h) ==
  /\ hs[h].pc = "select"
  /\ LET p == SelectPayment(hs[h].paymentId) IN
     hs' = [hs EXCEPT ![h].p = p,
                      ![h].pc = IF p = NoRow THEN "respond" ELSE "insert"]
  /\ UNCHANGED <<payments, orders, orderSrc, nextId, webhookSecret, co, intents>>

\* the order row built from the selected payment row
MobileOrderRow(p) ==
  [user_email |-> IF p.phone # NoStr THEN p.phone ELSE "guest",
   items |-> p.items,
   total |-> p.amount,
   name |-> p.customer_name,
   phone |-> NoStr,
   address |-> "Mobile money",
   status |-> "pending",
   stripe_payment_intent |-> NoStr]

\* await orders.insert([...])
MobileInsert(h) ==
  /\ hs[h].pc = "insert"
  /\ LET row == MobileOrderRow(hs[h].p) IN
     IF UniqueViolation(row)
     THEN /\ hs' = [hs EXCEPT ![h].pc = "respond", ![h].rejected = TRUE]
          /\ UNCHANGED <<orders, orderSrc>>
     ELSE /\ orders' = Append(orders, row)
          /\ orderSrc' = Append(orderSrc, hs[h].paymentId)
          /\ hs' = [hs EXCEPT ![h].pc = "respond", ![h].inserted = TRUE]
  /\ UNCHANGED <<payments, nextId, webhookSecret, co, intents>>

\* res.send('ok')
MobileRespond(h) ==
  /\ hs[h].pc = "respond"
  /\ hs' = [hs EXCEPT ![h].pc = "done", ![h].resp = 200,
                      ![h].req = NoRow, ![h].p = NoRow]
  /\ UNCHANGED <<payments, orders, orderSrc, nextId, webhookSecret, co, intents>>

\* a storage call of a mobile-money handler fails for a reason other than a
\* uniqueness conflict.  The client either resolves to {data: null, error},
\* which the handler never inspects, or rejects (thrown = TRUE), which the
\* catch block answers with 500.
MobileStoreError(h, thrown) ==
  /\ hs[h].pc \in {"update", "select", "insert"}
  /\ hs' = [hs EXCEPT
        ![h].failed = TRUE,
        ![h].pc = IF thrown THEN "done"
                  ELSE IF hs[h].pc = "update" /\ IsPaidEquivalent(hs[h].status)
                       THEN "select" ELSE "respond",
        ![h].resp = IF thrown THEN 500 ELSE 0,
        ![h].req = IF thrown THEN NoRow ELSE hs[h].req,
        ![h].p = NoRow]
  /\ UNCHANGED <<payments, orders, orderSrc, nextId, webhookSecret, co, intents>>

\* ------------------------------------------------ POST /webhook (Stripe)

\* JSON.parse on the metadata strings used here: "[a]" is a one-item cart,
\* any other text is malformed and makes JSON.parse throw
JSONthrows(text) == text # "[a]"
JSONparse(text) == IF text = "[a]" THEN <<"a">> ELSE <<>>

MkEvent(sig, parseable, type, id, cart, currency, amount) ==
  [sig |-> sig, parseable |-> parseable, type |-> type, id |-> id,
   cart |-> cart, email |-> "a@x", currency |-> currency, amount |-> amount]

\* deliveries the Stripe webhook is exercised with: sig is the state of the
\* stripe-signature header with respect to the payload
StripeEvents ==
  {MkEvent(sg, TRUE, "payment_intent.succeeded", "pi_1", "[a]", "usd", 7000) :
      sg \in {"valid", "invalid", "missing"}}
  \cup {MkEvent("valid", TRUE, "payment_intent.succeeded", "pi_1", NoStr, "ghs", 105000),
        MkEvent("valid", TRUE, "payment_intent.payment_failed", "pi_1", "[a]", "usd", 7000),
        MkEvent("valid", TRUE, "payment_intent.succeeded", "pi_1", "{a", "usd", 7000),
        MkEvent("missing", FALSE, "payment_intent.succeeded", "pi_1", "[a]", "usd", 7000)}

\* lines 116-135: the event is obtained from the raw body
EventAccepted(ev) ==
  IF ~webhookSecret
  THEN ev.parseable                      \* JSON.parse(req.body.toString())
  ELSE ev.sig = "valid" /\ ev.parseable  \* stripe.webhooks.constructEvent

\* lines 144-175: the order row built from the payment intent
StripeOrderRow(ev) ==
  [user_email |-> IF ev.email # NoStr THEN ev.email ELSE "guest",
   items |-> IF ev.cart # NoStr THEN JSONparse(ev.cart) ELSE <<>>,
   total |-> IF ev.currency = "ghs" THEN (ev.amount \div 100) \div GHS_RATE
             ELSE ev.amount \div 100,
   name |-> NoStr,
   phone |-> NoStr,
   address |-> NoStr,
   status |-> "paid",
   stripe_payment_intent |-> ev.id]

\* everything before the await: verification, dispatch on event.type
StripeStart(h, ev) ==
  /\ CanStart(h)
  /\ LET base == [IdleHandler EXCEPT !.kind = "stripe", !.paymentId = ev.id,
                                     !.status = ev.type]
         answer(code) == [base EXCEPT !.pc = "done", !.resp = code]
     IN IF ~EventAccepted(ev) THEN Begin(h, answer(400))
        ELSE IF ev.type # "payment_intent.succeeded" THEN Begin(h, answer(200))
        ELSE IF ev.cart # NoStr /\ JSONthrows(ev.cart)
             THEN Begin(h, answer(500))
        ELSE Begin(h, [base EXCEPT !.pc = "s_insert", !.req = ev])
  /\ UNCHANGED <<payments, orders, orderSrc, nextId, webhookSecret, co, intents>>

\* await orders.insert([...]); an error is logged, not thrown
StripeInsert(h) ==
  /\ hs[h].pc = "s_insert"
  /\ LET row == StripeOrderRow(hs[h].req) IN
     IF UniqueViolation(row)
     THEN /\ hs' = [hs EXCEPT ![h].pc = "s_respond", ![h].rejected = TRUE]
          /\ UNCHANGED <<orders, orderSrc>>
     ELSE /\ orders' = Append(orders, row)
          /\ orderSrc' = Append(orderSrc, hs[h].paymentId)
          /\ hs' = [hs EXCEPT ![h].pc = "s_respond", ![h].inserted = TRUE]
  /\ UNCHANGED <<payments, nextId, webhookSecret, co, intents>>

\* orders.insert resolves to an error other than a uniqueness conflict:
\* logged ("don't fail webhook; log and continue")
StripeInsertFails(h) ==
  /\ hs[h].pc = "s_insert"
  /\ hs' = [hs EXCEPT ![h].pc = "s_respond", ![h].failed = TRUE]
  /\ UNCHANGED <<payments, orders, orderSrc, nextId, webhookSecret, co, intents>>

\* a handler that propagates the insert error
StripeAnswerPropagates(rejected) == IF rejected THEN 500 ELSE 200

\* the answer after a rejected or accepted insert: res.json({received: true})
StripeAnswer(rejected) == 200

StripeRespond(h) ==
  /\ hs[h].pc = "s_respond"
  /\ hs' = [hs EXCEPT ![h].pc = "done", ![h].resp = StripeAnswer(hs[h].rejected),
                      ![h].req = NoRow]
  /\ UNCHANGED <<payments, orders, orderSrc, nextId, webhookSecret, co, intents>>

\* ------------------------------------------------------- specifications
Checkout ==
  \E provider \in Routes, amount \in {0, 7000}, phone \in {NoStr, "620"} :
     CreatePayment(provider, amount, phone, "Ann", <<"a">>)

StatusQuery ==
  \E id \in KnownRefs \cup {UnknownRef}, ok \in BOOLEAN : PaymentStatus(id, ok)

CheckoutFails ==
  \E provider \in Routes :
     CreatePaymentFails(provider, 7000, "620", "Ann", <<"a">>)

\* backend/server.js: handlers of concurrent requests interleave at awaits
Next ==
  \/ Checkout
  \/ \E h \in H, body \in MobileBodies : MobileStart(h, body)
  \/ \E h \in H : MobileUpdate(h)
  \/ \E h \in H : MobileSelect(h)
  \/ \E h \in H : MobileInsert(h)
  \/ \E h \in H : MobileRespond(h)

Spec == Init /\ [][Next]_vars

\* backend/server.js when every delivery completes before the next arrives
MobileStartSeq(h, body) ==
  /\ \A g \in H : ~InFlight(g)
  /\ MobileStart(h, body)

NextSeq ==
  \/ Checkout
  \/ \E h \in H, body \in MobileBodies : MobileStartSeq(h, body)
  \/ \E h \in H : MobileUpdate(h)
  \/ \E h \in H : MobileSelect(h)
  \/ \E h \in H : MobileInsert(h)
  \/ \E h \in H : MobileRespond(h)

SpecSeq == Init /\ [][NextSeq]_vars

\* backend/server.js with its status endpoint and a ledger that may refuse
\* the checkout's write; deliveries one after the other
NextLedger ==
  \/ NextSeq
  \/ CheckoutFails
  \/ StatusQuery

SpecLedger == Init /\ [][NextLedger]_vars

\* the checkout endpoints of both servers, on every kind of request
CheckoutWide ==
  \E provider \in Routes, amount \in {0, 7000}, phone \in {NoStr, "620"},
     name \in {"Ann"}, items \in {<<>>, <<"a">>} :
     \/ CreatePayment(provider, amount, phone, name, items)
     \/ CreatePaymentFails(provider, amount, phone, name, items)

CardCheckout ==
  \E cart \in Carts, currency \in {"usd", "ghs", "GHS"}, accepted \in BOOLEAN :
     CreatePaymentIntent(cart, currency, accepted)

NextCheckout ==
  \/ CheckoutWide
  \/ CardCheckout

SpecCheckout == Init /\ [][NextCheckout]_vars

\* backend/server.js on a store whose calls may fail
NextFail ==
  \/ Next
  \/ \E h \in H, thrown \in BOOLEAN : MobileStoreError(h, thrown)

SpecFail == Init /\ [][NextFail]_vars

\* the Stripe server
NextStripe ==
  \/ \E h \in H, ev \in StripeEvents : StripeStart(h, ev)
  \/ \E h \in H : StripeInsert(h)
  \/ \E h \in H : StripeInsertFails(h)
  \/ \E h \in H : StripeRespond(h)

SpecStripe == InitStripe /\ [][NextStripe]_vars

\* the webhooks of both servers, deliveries one after the other
StripeStartSeq(h, ev) ==
  /\ \A g \in H : ~InFlight(g)
  /\ StripeStart(h, ev)

NextWebhooks ==
  \/ NextSeq
  \/ \E h \in H, ev \in StripeEvents : StripeStartSeq(h, ev)
  \/ \E h \in H : StripeInsert(h)
  \/ \E h \in H : StripeInsertFails(h)
  \/ \E h \in H : StripeRespond(h)

SpecWebhooks == InitStripe /\ [][NextWebhooks]_vars
\* ------------------------------------------------------------- properties
\* number of order rows built from payment (or payment intent) id
OrdersFor(id) == Cardinality({i \in 1..Len(orders) : orderSrc[i] = id})

Quiet == \A g \in H : ~InFlight(g)

\* completed mobile-money deliveries for payment p with status token t that
\* found the payment row
Delivered(p, t) ==
  {h \in H : /\ hs[h].pc = "done" /\ hs[h].kind = "mobile"
             /\ hs[h].paymentId = p /\ hs[h].status = t /\ hs[h].prior # NoStr}

\* C1: when the same paid-equivalent notification for a payment has been
\* processed one or more times in sequence, and nothing else was delivered
\* for that payment, exactly one order exists for it and every delivery was
\* answered with success.
C1_Idempotent ==
  Quiet =>
    \A p \in DOMAIN payments : \A t \in {"paid", "success", "completed"} :
      (/\ Delivered(p, t) # {}
       /\ \A h \in H : hs[h].paymentId = p => h \in Delivered(p, t))
      => /\ OrdersFor(p) = 1
         /\ \A h \in Delivered(p, t) : hs[h].resp = 200

\* C2: when two handlers of paid-equivalent notifications for the same
\* payment have both finished their storage steps while neither has
\* answered yet, the payment's status is paid and exactly one order exists
\* for it.
C2_ConcurrentDuplicates ==
  \A h1, h2 \in H :
    (/\ h1 # h2
     /\ hs[h1].pc = "respond" /\ hs[h2].pc = "respond"
     /\ hs[h1].kind = "mobile" /\ hs[h2].kind = "mobile"
     /\ hs[h1].paymentId = hs[h2].paymentId
     /\ hs[h1].prior # NoStr /\ hs[h2].prior # NoStr
     /\ IsPaidEquivalent(hs[h1].status) /\ IsPaidEquivalent(hs[h2].status))
    => /\ payments[hs[h1].paymentId].status = "paid"
       /\ OrdersFor(hs[h1].paymentId) = 1

\* C3: a payment whose status is paid or failed keeps that status in every
\* step.
C3_TerminalImmutable ==
  [][\A p \in DOMAIN payments :
        payments[p].status \in {"paid", "failed"}
        => payments'[p].status = payments[p].status]_vars

\* C4: no step inserts an order for a payment whose stored status is
\* pending at that moment.
C4_NoPrematureOrder ==
  [][Len(orders') > Len(orders) =>
       LET p == orderSrc'[Len(orders')] IN
       p \in DOMAIN payments => payments[p].status # "pending"]_vars

\* C5: a step of a handler whose notification references no existing
\* payment_id changes neither the payments table nor the orders table.
C5_UnknownRefFrame ==
  [][\A h \in H :
        (hs'[h] # hs[h] /\ hs'[h].paymentId \notin DOMAIN payments)
        => payments' = payments /\ orders' = orders]_vars

\* C6: a mobile-money notification carrying a reference that matches no
\* payment is answered with a 4xx code.
C6_UnknownRefRejected ==
  \A h \in H :
    (/\ hs[h].pc = "done" /\ hs[h].kind = "mobile"
     /\ hs[h].paymentId # NoStr /\ hs[h].paymentId \notin DOMAIN payments)
    => hs[h].resp \in 400..499

\* C7: when a handler of a paid-equivalent notification that found its
\* payment pending sends the success response, the payment's status is paid
\* and an order for the payment exists.
C7_PaidAndMaterialized ==
  [][\A h \in H :
        (/\ hs[h].pc = "respond" /\ hs'[h].pc = "done" /\ hs'[h].resp = 200
         /\ IsPaidEquivalent(hs[h].status) /\ hs[h].prior = "pending")
        => /\ payments[hs[h].paymentId].status = "paid"
           /\ OrdersFor(hs[h].paymentId) >= 1]_vars

\* C8: every payment's status is one of pending, paid, failed, unknown.
C8_StatusEnum ==
  \A p \in DOMAIN payments :
    payments[p].status \in {"pending", "paid", "failed", "unknown"}

\* C9: an order is inserted by the Stripe webhook only for a notification
\* whose signature was verified: a signing secret is configured and the
\* signature is valid.
C9_FailClosed ==
  [][\A h \in H :
        (hs[h].kind = "stripe" /\ hs'[h].inserted /\ ~hs[h].inserted)
        => webhookSecret /\ hs[h].req.sig = "valid"]_vars

\* C10: a handler whose order insert was rejected by the uniqueness
\* constraint answers 200, and exactly one order exists for its payment
\* from the rejection on.
C10_ConflictIsSuccess ==
  \A h \in H :
    hs[h].rejected =>
      /\ OrdersFor(hs[h].paymentId) = 1
      /\ hs[h].pc = "done" => hs[h].resp = 200

C10_Witness ==
  \E h \in H : hs[h].rejected /\ hs[h].pc = "done" /\ hs[h].kind = "stripe"

\* C11: a webhook handler that met a storage failure other than a
\* uniqueness conflict answers 500.
C11_StorageErrorIs500 ==
  \A h \in H : (hs[h].pc = "done" /\ hs[h].failed) => hs[h].resp = 500

\* the order_id column of a payment row: no code writes it, so a row that
\* carries none reads as null
OrderIdOf(p) ==
  IF "order_id" \in DOMAIN payments[p] THEN payments[p].order_id ELSE NoStr

\* C12: once a handler that inserted an order for a payment has completed,
\* the payment's order_id is set.
C12_OrderIdSet ==
  \A h \in H :
    (hs[h].pc = "done" /\ hs[h].kind = "mobile" /\ hs[h].inserted)
    => OrderIdOf(hs[h].paymentId) # NoStr

\* C13: no checkout with an empty cart creates a PaymentRecord or opens a
\* provider transaction.
C13_EmptyCartRejected ==
  /\ \A p \in DOMAIN payments : payments[p].items # <<>>
  /\ \A k \in 1..Len(intents) : Len(intents[k].cart) > 0

\* the total of the claim: the sum of price * quantity, a missing quantity
\* counting as 1
RECURSIVE ClaimTotal(_, _)
ClaimTotal(cart, n) ==
  IF n = 0 THEN 0
  ELSE ClaimTotal(cart, n - 1)
       + (IF cart[n].hasPrice THEN cart[n].price ELSE 0)
         * (IF cart[n].hasQty THEN cart[n].quantity ELSE 1)

\* C14: the amount of every PaymentIntent is 100 times the sum of
\* price * quantity of its cart (a missing quantity counting as 1) when it
\* is charged in the base currency, and 100 times the exchange rate times
\* that sum when it is charged in the alternate currency.
C14_AmountComputation ==
  \A k \in 1..Len(intents) :
    LET it == intents[k]
        total == ClaimTotal(it.cart, Len(it.cart))
    IN it.amount = IF it.currency = "ghs"
                   THEN 100 * GHS_RATE * total ELSE 100 * total

\* C15: no PaymentIntent is opened for a cart with a line item whose price
\* is not positive (or missing) or whose given quantity is not positive.
C15_LineItemsValidated ==
  \A k \in 1..Len(intents) :
    \A n \in 1..Len(intents[k].cart) :
      LET i == intents[k].cart[n] IN
      /\ i.hasPrice /\ i.price > 0
      /\ i.hasQty => i.quantity > 0

C17_ImmutableFields ==
  [][/\ \A p \in DOMAIN payments :
          /\ p \in DOMAIN payments'
          /\ payments'[p].provider = payments[p].provider
          /\ payments'[p].amount = payments[p].amount
          /\ payments'[p].phone = payments[p].phone
          /\ payments'[p].customer_name = payments[p].customer_name
          /\ payments'[p].items = payments[p].items
     /\ (co' # co /\ co'.ledger = "read")
          => payments' = payments /\ orders' = orders]_vars

\* a webhook has updated an existing payment and a status query was answered
C17_Witness ==
  /\ \E h \in H : hs[h].kind = "mobile" /\ hs[h].prior # NoStr
  /\ co.ledger = "read" /\ co.code = 200

\* C18: only a handler of a paid-equivalent notification (for Stripe: of a
\* payment_intent.succeeded event) inserts an order, and the update made
\* for a failed notification leaves the payment's status failed.
C18_OnlyPaidMaterializes ==
  [][\A h \in H :
        /\ (hs'[h].inserted /\ ~hs[h].inserted)
             => \/ /\ hs[h].kind = "mobile"
                   /\ hs[h].status \in {"paid", "success", "completed"}
                \/ hs[h].kind = "stripe" /\ hs[h].status = "payment_intent.succeeded"
        /\ (/\ hs[h].pc = "update" /\ hs'[h].pc # "update" /\ ~hs'[h].failed
            /\ hs[h].status = "failed" /\ hs[h].paymentId \in DOMAIN payments)
             => /\ payments'[hs[h].paymentId].status = "failed"
                /\ hs'[h].pc = "respond"
                /\ orders' = orders]_vars

\* a failed notification for a pending payment was processed, no order
C18_Witness ==
  \E h \in H :
    /\ hs[h].pc = "done" /\ hs[h].kind = "mobile" /\ hs[h].status = "failed"
    /\ hs[h].prior = "pending" /\ hs[h].resp = 200 /\ ~hs[h].inserted
    /\ payments[hs[h].paymentId].status = "failed"
    /\ orders = <<>>

\* the amounts the Stripe events name for payment intent id
EventAmounts(id) == {ev.amount : ev \in {e \in StripeEvents : e.id = id}}

\* C19: every order row has fulfillment status pending, carries the items
\* of the payment it was built from, and has that payment's amount as total.
C19_OrderFromPayment ==
  \A i \in 1..Len(orders) :
    /\ orders[i].status = "pending"
    /\ orderSrc[i] \in DOMAIN payments
         => /\ orders[i].items = payments[orderSrc[i]].items
            /\ orders[i].total = payments[orderSrc[i]].amount
    /\ orders[i].stripe_payment_intent # NoStr
         => orders[i].total \in EventAmounts(orders[i].stripe_payment_intent)

\* C20 as stated: a mobile-money notification without any reference is
\* answered with 400.
C20_NoRefIs400 ==
  \A h \in H :
    (hs[h].kind = "mobile" /\ hs[h].paymentId = NoStr) => hs[h].resp = 400

\* the part of C20 that holds: a mobile-money notification without any
\* reference is answered at once, with 400, or with 500 when its status is
\* not a string; its handler never reaches a storage step.
C20_NoRefNoStorage ==
  \A h \in H :
    (hs[h].kind = "mobile" /\ hs[h].paymentId = NoStr)
    => /\ hs[h].pc = "done"
       /\ hs[h].resp = IF hs[h].status = NotAString THEN 500 ELSE 400
       /\ hs[h].prior = NoStr /\ ~hs[h].inserted /\ ~hs[h].failed

====
